---- MODULE Spec2Model ----
(***************************************************************************)
(* Model of gotable (src/gotable.go): TableRow, GenerateTable,             *)
(* GenerateCSV, generateTable, generateCSV and GetHeaderTag.               *)
(*                                                                         *)
(* A Go string is modelled as a sequence of characters (runes).  Every     *)
(* character is a one-element TLA+ string, except the token "U+00E9",      *)
(* which stands for one character whose UTF-8 encoding takes two bytes.    *)
(* Go's len() counts bytes (GoLen); fmt's width padding counts runes       *)
(* (RuneCount).                                                            *)
(***************************************************************************)
EXTENDS Integers, Sequences, FiniteSets, TLC

\* ---------------------------------------------------------------- bounds
MaxRecs == 2
MaxFields == 2

\* ------------------------------------------------------------- constants
NOT_SUPPORTED == <<"N", "O", "_", "S", "U", "P", "P", "O", "R", "T">>

\* ---------------------------------------------------------------- strings
MultiByte == {"U+00E9"}

ByteLen(c) == IF c \in MultiByte THEN 2 ELSE 1

RuneCount(s) == Len(s)

RECURSIVE GoLen(_)
GoLen(s) == IF s = <<>> THEN 0 ELSE ByteLen(Head(s)) + GoLen(Tail(s))

Repeat(c, n) == [i \in 1..n |-> c]

DigitChar(d) == <<"0", "1", "2", "3", "4", "5", "6", "7", "8", "9">>[d + 1]

RECURSIVE Digits(_)
Digits(n) ==
    IF n < 10 THEN <<DigitChar(n)>>
    ELSE Digits(n \div 10) \o <<DigitChar(n % 10)>>

\* fmt.Sprintf("%d", n)
SprintfD(n) == IF n < 0 THEN <<"-">> \o Digits(0 - n) ELSE Digits(n)

\* fmt's "%-<width>s": left-justify, pad with spaces up to width runes
PadString_bytes(s, width) ==
    IF width - GoLen(s) > 0 THEN s \o Repeat(" ", width - GoLen(s)) ELSE s

PadString(s, width) ==
    IF width - RuneCount(s) > 0 THEN s \o Repeat(" ", width - RuneCount(s)) ELSE s

\* ------------------------------------------------------------------ maps
\* map[string]string: a function on the set of keys present
EmptyMap == [k \in {} |-> <<>>]

\* m[k] of a Go map: the zero value "" when the key is absent
Get(m, k) == IF k \in DOMAIN m THEN m[k] ELSE <<>>

Put(m, k, v) == [x \in (DOMAIN m) \cup {k} |-> IF x = k THEN v ELSE m[x]]

\* ---------------------------------------------------------------- errors
Nil == [kind |-> "nil", field |-> "", type |-> ""]

InvalidField(fieldName, typeName) ==
    [kind |-> "InvalidField", field |-> fieldName, type |-> typeName]

WriteFailure == [kind |-> "WriteFailure", field |-> "", type |-> ""]

\* --------------------------------------------------------------- records
\* A reflect.Value of a field: its Kind and what String(), Int()/Uint() and
\* Bool() return for it.
VString(s) == [kind |-> "string", s |-> s, n |-> 0, b |-> FALSE]
VNum(kind, n) == [kind |-> kind, s |-> <<>>, n |-> n, b |-> FALSE]
VBool(b) == [kind |-> "bool", s |-> <<>>, n |-> 0, b |-> b]
VOther(kind) == [kind |-> kind, s |-> <<>>, n |-> 0, b |-> FALSE]

Field(name, val, tag) == [name |-> name, val |-> val, tag |-> tag]

s_Name == <<"N", "a", "m", "e">>
s_Age == <<"A", "g", "e">>
s_Alice == <<"A", "l", "i", "c", "e">>
s_Bob == <<"B", "o", "b">>

\* A TableStruct: the struct type's name, its fields in declaration order
\* (each with its `header` tag) and the field names its GetHeader rejects.
R_Alice ==
    [type |-> "Person",
     fields |-> <<Field("Name", VString(s_Alice), s_Name),
                  Field("Age", VNum("int", 30), s_Age)>>,
     bad |-> {}]

R_Bob ==
    [type |-> "Person",
     fields |-> <<Field("Name", VString(s_Bob), s_Name),
                  Field("Age", VNum("int", 5), s_Age)>>,
     bad |-> {}]

\* non-ASCII header and value, an untagged uint8 field
R_Zoe ==
    [type |-> "Guest",
     fields |-> <<Field("Name", VString(<<"Z", "o", "U+00E9">>), <<"N", "U+00E9">>),
                  Field("Age", VNum("uint8", 255), <<>>)>>,
     bad |-> {}]

\* every branch of the type switch; a text value that CSV has to quote
R_Misc ==
    [type |-> "Misc",
     fields |-> <<Field("Name", VString(<<"a", ",", "\"", "b">>), <<"T">>),
                  Field("Age", VNum("int8", 0 - 128), <<"Y", "r", "s">>),
                  Field("Ok", VBool(TRUE), <<"Ok">>),
                  Field("Off", VBool(FALSE), <<"Off">>),
                  Field("Ratio", VOther("float64"), <<"Ratio">>),
                  Field("Big", VNum("uint64", 1000000), <<"Big">>),
                  Field("Sub", VOther("struct"), <<"Sub">>)>>,
     bad |-> {}]

\* GetHeader fails on the second field
R_BadAge ==
    [type |-> "Person",
     fields |-> <<Field("Name", VString(<<"E", "v", "e">>), s_Name),
                  Field("Age", VNum("int", 7), s_Age)>>,
     bad |-> {"Age"}]

\* GetHeader fails on the first field
R_BadName ==
    [type |-> "Broken",
     fields |-> <<Field("Name", VString(<<"X">>), s_Name),
                  Field("Age", VNum("int", 1), s_Age)>>,
     bad |-> {"Name"}]

RecordPool == {R_Alice, R_Bob, R_Zoe, R_Misc, R_BadAge, R_BadName}

SelectableNames == {"Name", "Age", "Zip"}

FieldNames(rec) == {rec.fields[i].name : i \in 1..Len(rec.fields)}

\* reflect's Type.FieldByName / Value.FieldByName
FieldByName(rec, fieldName) ==
    IF fieldName \in FieldNames(rec)
    THEN [ok |-> TRUE,
          f |-> rec.fields[CHOOSE i \in 1..Len(rec.fields) : rec.fields[i].name = fieldName]]
    ELSE [ok |-> FALSE, f |-> Field("", VOther("invalid"), <<>>)]

GetHeaderTag(rec, fieldName) ==
    LET r == FieldByName(rec, fieldName)
    IN  IF ~r.ok
        THEN [header |-> <<>>, err |-> InvalidField(fieldName, rec.type)]
        ELSE [header |-> r.f.tag, err |-> Nil]

\* The TableStruct interface: the record's own GetHeader.  It is the
\* tag lookup, except for the names the implementation rejects.
GetHeader(rec, fieldName) ==
    IF fieldName \in rec.bad
    THEN [header |-> <<>>, err |-> InvalidField(fieldName, rec.type)]
    ELSE GetHeaderTag(rec, fieldName)

\* -------------------------------------------------------------- TableRow
IntKinds == {"int", "int8", "int16", "int32", "int64"}
UintKinds == {"uint", "uint8", "uint16", "uint32", "uint64"}

\* the switch on fval.Kind()
FieldString_strict(fval) ==
    IF fval.kind = "string" THEN fval.s
    ELSE IF fval.kind \in IntKinds THEN SprintfD(fval.n)
    ELSE IF fval.kind \in UintKinds THEN SprintfD(fval.n)
    ELSE IF fval.kind = "bool" THEN (IF fval.b THEN <<"t", "r", "u", "e">>
                                     ELSE <<"f", "a", "l", "s", "e">>)
    ELSE <<>>

FieldString(fval) ==
    IF fval.kind = "string" THEN fval.s
    ELSE IF fval.kind \in IntKinds THEN SprintfD(fval.n)
    ELSE IF fval.kind \in UintKinds THEN SprintfD(fval.n)
    ELSE IF fval.kind = "bool" THEN (IF fval.b THEN <<"t", "r", "u", "e">>
                                     ELSE <<"f", "a", "l", "s", "e">>)
    ELSE NOT_SUPPORTED

RECURSIVE TableRowLoop(_, _, _, _)
TableRowLoop(rec, i, row, headers) ==
    IF i > Len(rec.fields)
    THEN [row |-> row, headers |-> headers, err |-> Nil]
    ELSE LET f == rec.fields[i]
             h == GetHeader(rec, f.name)
             fval == FieldByName(rec, f.name)
         IN  IF h.err # Nil
             THEN [row |-> row, headers |-> row, err |-> h.err]
             ELSE IF ~fval.ok
                  THEN TableRowLoop(rec, i + 1, row, Put(headers, f.name, h.header))
                  ELSE TableRowLoop(rec, i + 1,
                                    Put(row, f.name, FieldString(fval.f.val)),
                                    Put(headers, f.name, h.header))

TableRow_noerr(rec) ==
    [TableRowLoop(rec, 1, EmptyMap, EmptyMap) EXCEPT !.err = Nil]

TableRow(rec) == TableRowLoop(rec, 1, EmptyMap, EmptyMap)

\* --------------------------------------------------------- generateTable
\* colWidth[i] = len(fieldMap[field])
HeaderWidths(fieldMap, fields) ==
    [i \in 1..Len(fields) |-> GoLen(Get(fieldMap, fields[i]))]

\* one pass of the inner loop: widen every column the row r overflows
WidenRow(r, colWidth, fields) ==
    [i \in 1..Len(fields) |->
        IF GoLen(Get(r, fields[i])) > colWidth[i]
        THEN GoLen(Get(r, fields[i]))
        ELSE colWidth[i]]

RECURSIVE ColWidthLoop(_, _, _, _)
ColWidthLoop(data, k, colWidth, fields) ==
    IF k > Len(data) THEN colWidth
    ELSE ColWidthLoop(data, k + 1, WidenRow(data[k], colWidth, fields), fields)

\* values[i] = row[field]
RowValues_reversed(row, fields) ==
    [i \in 1..Len(fields) |-> Get(row, fields[Len(fields) + 1 - i])]

RowValues(row, fields) == [i \in 1..Len(fields) |-> Get(row, fields[i])]

\* strings.Join of the padded cells with " | "
RECURSIVE JoinPadded(_, _, _)
JoinPadded(cells, colWidth, i) ==
    IF i > Len(cells) THEN <<>>
    ELSE (IF i > 1 THEN <<" ", "|", " ">> ELSE <<>>)
         \o PadString(cells[i], colWidth[i])
         \o JoinPadded(cells, colWidth, i + 1)

\* fmt.Sprintf(fstring, cells...) with fstring = "%-<w1>s | ... | %-<wn>s\n"
SprintfRow_trim(colWidth, cells) ==
    JoinPadded(cells, [i \in 1..Len(colWidth) |->
                          IF i = Len(colWidth) THEN 0 ELSE colWidth[i]], 1)
    \o <<"\n">>

SprintfRow(colWidth, cells) == JoinPadded(cells, colWidth, 1) \o <<"\n">>

RECURSIVE PrintRows(_, _, _, _)
PrintRows(data, k, colWidth, fields) ==
    IF k > Len(data) THEN <<>>
    ELSE SprintfRow(colWidth, RowValues(data[k], fields))
         \o PrintRows(data, k + 1, colWidth, fields)

\* what generateTable prints on standard output
generateTable(data, fieldMap, fields) ==
    LET colWidth == ColWidthLoop(data, 1, HeaderWidths(fieldMap, fields), fields)
        headerLine == SprintfRow(colWidth, RowValues(fieldMap, fields))
    IN  headerLine
        \o Repeat("=", GoLen(headerLine) - 1) \o <<"\n">>
        \o PrintRows(data, 1, colWidth, fields)

\* ----------------------------------------------------------- generateCSV
\* encoding/csv, Writer.fieldNeedsQuotes with Comma = ','
fieldNeedsQuotes(field) ==
    /\ field # <<>>
    /\ \/ field = <<"\\", ".">>
       \/ \E i \in 1..Len(field) : field[i] \in {"\n", "\r", "\"", ","}
       \/ field[1] \in {" ", "\t"}

RECURSIVE EscapeQuotes(_)
EscapeQuotes(field) ==
    IF field = <<>> THEN <<>>
    ELSE (IF Head(field) = "\"" THEN <<"\"", "\"">> ELSE <<Head(field)>>)
         \o EscapeQuotes(Tail(field))

RECURSIVE WriteFields(_, _)
WriteFields(record, n) ==
    IF n > Len(record) THEN <<>>
    ELSE (IF n > 1 THEN <<",">> ELSE <<>>)
         \o (IF fieldNeedsQuotes(record[n])
             THEN <<"\"">> \o EscapeQuotes(record[n]) \o <<"\"">>
             ELSE record[n])
         \o WriteFields(record, n + 1)

\* encoding/csv, Writer.Write(record) with UseCRLF = false
csvWrite(record) == WriteFields(record, 1) \o <<"\n">>

\* ------------------------------------------------------------------ state
VARIABLES
    tables,    \* argument: the records
    fields,    \* argument: the field selection
    mode,      \* "table" for GenerateTable, "csv" for GenerateCSV
    failAt,    \* the row whose write standard output rejects (0: none)
    pc,        \* position of the call
    idx,       \* index of the record the introspection loop is at
    cidx,      \* index of the row generateCSV's loop is at
    table,     \* local `table`: the rows gathered so far
    headers,   \* local `headers` of GenerateTable
    tr,        \* what the latest call of TableRow returned
    result,    \* the error the entry point returned (when pc = "done")
    csvErr,    \* the error generateCSV returned
    stdout     \* the characters written to standard output

vars == <<tables, fields, mode, failAt, pc, idx, cidx, table, headers, tr,
          result, csvErr, stdout>>

SeqsUpTo(S, n) == UNION {[1..m -> S] : m \in 0..n}

Init ==
    /\ tables \in SeqsUpTo(RecordPool, MaxRecs)
    /\ fields \in SeqsUpTo(SelectableNames, MaxFields)
    /\ mode \in {"table", "csv"}
    /\ failAt \in (IF mode = "csv" THEN 0..MaxRecs ELSE {0})
    /\ pc = IF tables = <<>> THEN "render" ELSE "introspect"
    /\ idx = 1
    /\ cidx = 1
    /\ table = <<>>
    /\ headers = EmptyMap
    /\ tr = [row |-> EmptyMap, headers |-> EmptyMap, err |-> Nil]
    /\ result = Nil
    /\ csvErr = Nil
    /\ stdout = <<>>

\* headers = h
AssignHeaders_first(old, h) == IF old = EmptyMap THEN h ELSE old

AssignHeaders(old, h) == h

\* one iteration of the loop over `tables` in GenerateTable / GenerateCSV
Introspect_continue ==
    /\ pc = "introspect"
    /\ LET r == TableRow(tables[idx])
       IN  /\ tr' = r
           /\ result' = IF r.err # Nil THEN r.err ELSE result
           /\ table' = IF r.err # Nil THEN table ELSE Append(table, r.row)
           /\ headers' = IF mode = "table" /\ r.err = Nil
                         THEN AssignHeaders(headers, r.headers) ELSE headers
           /\ idx' = idx + 1
           /\ pc' = IF idx < Len(tables) THEN "introspect"
                    ELSE IF result' # Nil THEN "done" ELSE "render"
    /\ UNCHANGED <<tables, fields, mode, failAt, cidx, csvErr, stdout>>

Introspect ==
    /\ pc = "introspect"
    /\ LET r == TableRow(tables[idx])
       IN  /\ tr' = r
           /\ IF r.err # Nil
              THEN /\ result' = r.err
                   /\ pc' = "done"
                   /\ UNCHANGED <<table, headers, idx>>
              ELSE /\ table' = Append(table, r.row)
                   /\ headers' = IF mode = "table"
                                 THEN AssignHeaders(headers, r.headers)
                                 ELSE headers
                   /\ idx' = idx + 1
                   /\ pc' = IF idx < Len(tables) THEN "introspect" ELSE "render"
                   /\ UNCHANGED result
    /\ UNCHANGED <<tables, fields, mode, failAt, cidx, csvErr, stdout>>

\* GenerateTable after its loop: generateTable(table, headers, fields); return nil
RenderTable ==
    /\ pc = "render"
    /\ mode = "table"
    /\ stdout' = stdout \o generateTable(table, headers, fields)
    /\ result' = Nil
    /\ pc' = "done"
    /\ UNCHANGED <<tables, fields, mode, failAt, idx, cidx, table, headers, tr, csvErr>>

\* generateCSV: w.Write(values) accepted.  The writer's buffer is not
\* modelled: an accepted row is on standard output.
CSVWriteRow ==
    /\ pc = "render"
    /\ mode = "csv"
    /\ cidx <= Len(table)
    /\ failAt # cidx
    /\ stdout' = stdout \o csvWrite(RowValues(table[cidx], fields))
    /\ cidx' = cidx + 1
    /\ UNCHANGED <<tables, fields, mode, failAt, pc, idx, table, headers, tr,
                   result, csvErr>>

\* generateCSV: w.Write(values) rejected, generateCSV returns the error;
\* GenerateCSV drops generateCSV's return value and returns nil
CSVWriteFail ==
    /\ pc = "render"
    /\ mode = "csv"
    /\ cidx <= Len(table)
    /\ failAt = cidx
    /\ csvErr' = WriteFailure
    /\ result' = Nil
    /\ pc' = "done"
    /\ UNCHANGED <<tables, fields, mode, failAt, idx, cidx, table, headers, tr,
                   stdout>>

\* generateCSV: the loop is over, return err (nil); GenerateCSV returns nil
CSVReturn ==
    /\ pc = "render"
    /\ mode = "csv"
    /\ cidx > Len(table)
    /\ csvErr' = Nil
    /\ result' = Nil
    /\ pc' = "done"
    /\ UNCHANGED <<tables, fields, mode, failAt, idx, cidx, table, headers, tr,
                   stdout>>

Next ==
    \/ Introspect
    \/ RenderTable
    \/ CSVWriteRow
    \/ CSVWriteFail
    \/ CSVReturn

Spec == Init /\ [][Next]_vars

\* ================================================================ claims
\* ------------------------------------------------ vocabulary of the claims
Max(S) == CHOOSE m \in S : \A x \in S : x <= m

Min(S) == CHOOSE m \in S : \A x \in S : m <= x

\* the lines of a text, without their newline characters
RECURSIVE SplitLines(_, _)
SplitLines(s, cur) ==
    IF s = <<>> THEN (IF cur = <<>> THEN <<>> ELSE <<cur>>)
    ELSE IF Head(s) = "\n" THEN <<cur>> \o SplitLines(Tail(s), <<>>)
    ELSE SplitLines(Tail(s), Append(cur, Head(s)))

Lines(s) == SplitLines(s, <<>>)

\* the value of a string of decimal digits
RECURSIVE DecValue(_)
DecValue(s) ==
    IF s = <<>> THEN 0
    ELSE 10 * DecValue(SubSeq(s, 1, Len(s) - 1))
         + (CHOOSE d \in 0..9 : DigitChar(d) = s[Len(s)])

IsDigits(s) ==
    /\ s # <<>>
    /\ \A i \in 1..Len(s) : \E d \in 0..9 : DigitChar(d) = s[i]
    /\ Len(s) > 1 => s[1] # "0"

\* s is the base-10 decimal string of n
IsDecimalOf(s, n) ==
    IF n < 0
    THEN /\ Len(s) > 1
         /\ s[1] = "-"
         /\ IsDigits(Tail(s))
         /\ DecValue(Tail(s)) = 0 - n
    ELSE IsDigits(s) /\ DecValue(s) = n

\* the string the specification asks for a field value
IsStringOf(s, fval) ==
    IF fval.kind = "string" THEN s = fval.s
    ELSE IF fval.kind \in IntKinds \cup UintKinds THEN IsDecimalOf(s, fval.n)
    ELSE IF fval.kind = "bool"
         THEN s = (IF fval.b THEN <<"t", "r", "u", "e">> ELSE <<"f", "a", "l", "s", "e">>)
    ELSE s = NOT_SUPPORTED

\* the record a call of TableRow has returned for, and the record of it
Introspected == idx > 1 \/ tr.err # Nil

LastRec == IF tr.err # Nil THEN tables[idx] ELSE tables[idx - 1]

\* the indices of the own fields of rec that its GetHeader rejects
BadFields(rec) == {i \in 1..Len(rec.fields) : rec.fields[i].name \in rec.bad}

FailingRecs == {k \in 1..Len(tables) : BadFields(tables[k]) # {}}

TableDone == pc = "done" /\ mode = "table" /\ result = Nil

\* the width the specification gives column i, for the header cells hcells
SpecWidth(hcells, i) ==
    Max({GoLen(hcells[i])}
        \cup {GoLen(Get(table[k], fields[i])) : k \in 1..Len(table)})

SpecCell(c, w) == c \o Repeat(" ", w - Len(c))

RECURSIVE SpecJoin(_, _, _)
SpecJoin(cells, hcells, i) ==
    IF i > Len(cells) THEN <<>>
    ELSE (IF i > 1 THEN <<" ", "|", " ">> ELSE <<>>)
         \o SpecCell(cells[i], SpecWidth(hcells, i))
         \o SpecJoin(cells, hcells, i + 1)

SpecLine(cells, hcells) == SpecJoin(cells, hcells, 1)

HeaderCells == [i \in 1..Len(fields) |-> Get(headers, fields[i])]

RowCells(k) == [i \in 1..Len(fields) |-> Get(table[k], fields[i])]

\* ---------------------------------------------------------------- C1
\* C1: when standard output rejects the write of a row, the value
\* GenerateCSV returns is that non-nil write error.
C1_WriteErrorReturned ==
    (pc = "done" /\ mode = "csv" /\ csvErr # Nil)
        => (result # Nil /\ result = csvErr)

\* ---------------------------------------------------------------- C2
\* C2 (as stated): a field selection with a name that the GetHeader of a
\* record cannot resolve makes the call return an InvalidField error and
\* print nothing.
C2_UnresolvableSelection ==
    (/\ pc = "done"
     /\ \E k \in 1..Len(tables) : \E i \in 1..Len(fields) :
            GetHeader(tables[k], fields[i]).err # Nil)
        => (result.kind = "InvalidField" /\ stdout = <<>>)

\* C2 (amended): the call returns an InvalidField error and prints nothing
\* when the GetHeader of a record cannot resolve one of the record's own
\* fields; otherwise it returns nil whatever the selection names, and a
\* selected name that is no field of a record is an empty cell of its row.
C2_OwnFieldUnresolvable ==
    pc = "done" =>
        /\ FailingRecs # {} => (result.kind = "InvalidField" /\ stdout = <<>>)
        /\ FailingRecs = {} =>
            /\ result = Nil
            /\ mode = "table" => stdout # <<>>
            /\ \A k \in 1..Len(tables) : \A i \in 1..Len(fields) :
                   fields[i] \notin FieldNames(tables[k])
                       => Get(table[k], fields[i]) = <<>>

C2_Witness ==
    /\ pc = "done"
    /\ FailingRecs = {}
    /\ tables # <<>>
    /\ \E i \in 1..Len(fields) : fields[i] = "Zip"
    /\ stdout # <<>>

\* ---------------------------------------------------------------- C3
\* C3: when GetHeader fails for a field, the Row and the HeaderMap that
\* TableRow returns with the error have no entry.
C3_NoPartialRow ==
    (Introspected /\ tr.err # Nil)
        => (tr.row = EmptyMap /\ tr.headers = EmptyMap)

\* ---------------------------------------------------------------- C4
\* C4: in text mode every header cell and every row cell of column i is
\* left-justified and padded to exactly max(len(header), max over the rows
\* of len(cell)) characters, cells are joined by " | "; a field missing
\* from a row or from the header map is the empty string.
C4_ColumnWidth ==
    TableDone =>
        LET L == Lines(stdout)
        IN  /\ Len(L) = Len(table) + 2
            /\ L[1] = SpecLine(HeaderCells, HeaderCells)
            /\ \A k \in 1..Len(table) : L[k + 2] = SpecLine(RowCells(k), HeaderCells)
            /\ \A i \in 1..Len(fields) :
                   LET w == SpecWidth(HeaderCells, i)
                   IN  /\ Len(SpecCell(HeaderCells[i], w)) = w
                       /\ \A k \in 1..Len(table) : Len(SpecCell(RowCells(k)[i], w)) = w

C4_Witness ==
    /\ TableDone
    /\ table # <<>>
    /\ \E i \in 1..Len(fields) : fields[i] = "Zip"
    /\ \E i \in 1..Len(fields) : \E k \in 1..Len(table) :
           /\ Len(RowCells(k)[i]) < SpecWidth(HeaderCells, i)
           /\ GoLen(RowCells(k)[i]) > Len(RowCells(k)[i])

\* ---------------------------------------------------------------- C5
AliceBob == tables = <<R_Alice, R_Bob>> /\ fields = <<"Name", "Age">>

C5_ClaimedText ==
    <<"N", "a", "m", "e", " ", " ", "|", " ", "A", "g", "e", "\n", "=",
      "=", "=", "=", "=", "=", "=", "=", "=", "\n", "A", "l", "i", "c",
      "e", " ", "|", " ", "3", "0", "\n", "B", "o", "b", " ", " ", " ",
      "|", " ", "5", "\n">>

C5_PrintedText ==
    <<"N", "a", "m", "e", " ", " ", "|", " ", "A", "g", "e", "\n", "=",
      "=", "=", "=", "=", "=", "=", "=", "=", "=", "=", "\n", "A", "l",
      "i", "c", "e", " ", "|", " ", "3", "0", " ", "\n", "B", "o", "b",
      " ", " ", " ", "|", " ", "5", " ", " ", "\n">>

\* C5 (as stated): for Alice and Bob with fields Name, Age the text is
\* "Name  | Age", nine "=", "Alice | 30", "Bob   | 5", the last cell of a
\* line unpadded.
C5_AliceBobClaimed ==
    (TableDone /\ AliceBob) => stdout = C5_ClaimedText

\* C5 (amended): the text is "Name  | Age", eleven "=", "Alice | 30 " and
\* "Bob   | 5  ": widths Name=5 and Age=3, the last cell of a line padded
\* to its width like the others and the underline as long as the header.
C5_AliceBobPrinted ==
    (TableDone /\ AliceBob) => stdout = C5_PrintedText

C5_Witness == TableDone /\ AliceBob /\ Len(Lines(stdout)) = 4

\* ---------------------------------------------------------------- C6
\* C6: the Row of TableRow has, for every field of the record, the text
\* itself, the base-10 decimal string of an integer of any width, "true"
\* or "false" for a boolean and "NO_SUPPORT" for any other type; an
\* unsupported type gives no error and leaves no field out.
C6_Stringification ==
    Introspected =>
        /\ BadFields(LastRec) = {} => tr.err = Nil
        /\ tr.err = Nil =>
               \A i \in 1..Len(LastRec.fields) :
                   LET f == LastRec.fields[i]
                   IN  /\ f.name \in DOMAIN tr.row
                       /\ IsStringOf(tr.row[f.name], f.val)

C6_Witness ==
    /\ Introspected
    /\ tr.err = Nil
    /\ \E i \in 1..Len(LastRec.fields) :
           /\ LastRec.fields[i].val.kind = "float64"
           /\ tr.row[LastRec.fields[i].name] = NOT_SUPPORTED
    /\ \E i \in 1..Len(LastRec.fields) :
           /\ LastRec.fields[i].val.n < 0
           /\ tr.row[LastRec.fields[i].name] = <<"-", "1", "2", "8">>

\* ---------------------------------------------------------------- C7
\* the error of the first own field of rec that its GetHeader rejects
FirstError(rec) ==
    InvalidField(rec.fields[Min(BadFields(rec))].name, rec.type)

\* C7: when TableRow fails for some record, nothing is ever written to
\* standard output and the call returns the error of the earliest failing
\* record.
C7_FirstErrorNoOutput ==
    FailingRecs # {} =>
        /\ stdout = <<>>
        /\ pc = "done" => result = FirstError(tables[Min(FailingRecs)])

C7_Witness ==
    /\ pc = "done"
    /\ result # Nil
    /\ idx = 2
    /\ Len(table) = 1
    /\ stdout = <<>>

\* ---------------------------------------------------------------- C8
\* C8: the underline is made of "=" and its length is the character count
\* of the header line, newline included, minus one.
C8_UnderlineLength ==
    TableDone =>
        LET L == Lines(stdout)
        IN  /\ \A j \in 1..Len(L[2]) : L[2][j] = "="
            /\ Len(L[2]) = (Len(L[1]) + 1) - 1

\* ---------------------------------------------------------------- C9
\* the strings of the selected fields of a record, in selection order
RECURSIVE SelectedStrings(_, _, _)
SelectedStrings(rec, row, i) ==
    IF i > Len(fields) THEN TRUE
    ELSE /\ IF fields[i] \in FieldNames(rec)
            THEN IsStringOf(row[i], FieldByName(rec, fields[i]).f.val)
            ELSE row[i] = <<>>
         /\ SelectedStrings(rec, row, i + 1)

RECURSIVE CSVText(_)
CSVText(k) ==
    IF k > Len(table) THEN <<>>
    ELSE csvWrite(RowCells(k)) \o CSVText(k + 1)

C9_AliceBobCSV ==
    <<"A", "l", "i", "c", "e", ",", "3", "0", "\n", "B", "o", "b", ",",
      "5", "\n">>

\* C9: GenerateCSV emits one CSV record per input record, in input order,
\* with the strings of the record's selected fields in selection order,
\* and no header row; Alice and Bob give "Alice,30\nBob,5\n".
C9_CSVRecords ==
    (pc = "done" /\ mode = "csv" /\ result = Nil /\ csvErr = Nil) =>
        /\ Len(table) = Len(tables)
        /\ \A k \in 1..Len(tables) : SelectedStrings(tables[k], RowCells(k), 1)
        /\ stdout = CSVText(1)
        /\ AliceBob => stdout = C9_AliceBobCSV

C9_Witness ==
    /\ pc = "done"
    /\ mode = "csv"
    /\ csvErr = Nil
    /\ AliceBob
    /\ stdout # <<>>

\* --------------------------------------------------------------- C10
\* the header of a selected name for the last record of the list
LastHeaderCells ==
    [i \in 1..Len(fields) |->
        IF tables = <<>> THEN <<>>
        ELSE LET r == FieldByName(tables[Len(tables)], fields[i])
             IN  IF r.ok THEN r.f.tag ELSE <<>>]

\* C10: the header line is built from the headers of the last record
\* only; with no record the header map is empty and every header cell is
\* the empty string.
C10_LastHeadersWin ==
    TableDone =>
        /\ \A i \in 1..Len(fields) : Get(headers, fields[i]) = LastHeaderCells[i]
        /\ tables = <<>> => headers = EmptyMap
        /\ Lines(stdout)[1] = SpecLine(LastHeaderCells, LastHeaderCells)

C10_Witness ==
    /\ TableDone
    /\ Len(tables) = 2
    /\ \E i \in 1..Len(fields) :
           /\ fields[i] \in FieldNames(tables[1])
           /\ FieldByName(tables[1], fields[i]).f.tag # LastHeaderCells[i]

====
